---- MODULE Spec2Model ----
(***************************************************************************)
(* State-machine model of run_dating_simulation (src/backend.py), the      *)
(* Hinge-like dating simulation engine, and of the way the web front end   *)
(* (src/app.py) calls it.                                                  *)
(*                                                                         *)
(* Probabilities and rolls are fixed-point numbers in units of 1/ProbDen,  *)
(* the queue-penalty weight is a fixed-point number in units of 1/WqDen,   *)
(* and the reciprocal weight is a natural-number exponent, so that scores  *)
(* are exact rationals compared by cross-multiplication.                   *)
(***************************************************************************)
EXTENDS Integers, Sequences, FiniteSets, TLC

VARIABLES
    all_women_ids,         \* ids of synthetic_women_profiles.csv, in file order
    all_men_ids,           \* ids of synthetic_men_profiles.csv, in file order
    num_days,              \* parameter num_days
    daily_queue_size,      \* parameter daily_queue_size
    incoming_order,        \* parameter incoming_order
    weight_reciprocal,     \* parameter weight_reciprocal (an exponent)
    weight_queue_penalty,  \* parameter weight_queue_penalty, in 1/WqDen
    prob_women_likes_men,  \* matrix [woman][man], in 1/ProbDen
    prob_men_likes_women,  \* matrix [man][woman], in 1/ProbDen
    incoming_likes,        \* per user: sequence of <<sender, day_sent>>
    matches,               \* per user: set of matched partners
    likes_sent,            \* per user: set of users liked
    daily_logs,            \* sequence of the finished days' records
    day,                   \* loop variable of the day loop (0 before it)
    day_records,           \* records of the current day
    login_order,           \* the shuffled login order of the current day
    pos,                   \* index in login_order of the user in process
    user_incoming,         \* local user_incoming of the user in process
    daily_queue,           \* local daily_queue of the user in process
    qi,                    \* index in daily_queue of the next entry
    pc,                    \* control point of the run
    track_stream,          \* TRUE when the values drawn for the seed are kept
    py_stream,             \* values random.shuffle has produced for the seed
    np_stream,             \* values np.random.rand has produced for the seed
    py_pos,                \* number of shuffles drawn in this run
    np_pos,                \* number of rolls drawn in this run
    calls_left,            \* further calls the caller makes with the same seed
    first_result,          \* what the first call returned (<<>> before)
    form                   \* request.form of the web request (<<>>: no request)

vars == <<all_women_ids, all_men_ids, num_days, daily_queue_size, incoming_order, weight_reciprocal,
          weight_queue_penalty, prob_women_likes_men, prob_men_likes_women,
          incoming_likes, matches, likes_sent, daily_logs, day, day_records,
          login_order, pos, user_incoming, daily_queue, qi, pc,
          track_stream, py_stream, np_stream, py_pos, np_pos, calls_left,
          first_result, form>>

config == <<all_women_ids, all_men_ids, num_days, daily_queue_size, incoming_order, weight_reciprocal,
            weight_queue_penalty, prob_women_likes_men, prob_men_likes_women,
            form>>

----------------------------------------------------------------------------
(* Bounds of the model *)

MaxCapacity == 2

(* Defaults of run_dating_simulation *)

DefaultNumDays == 3

(* Units of the fixed-point numbers *)
ProbDen == 2
WqDen == 2

----------------------------------------------------------------------------
(* Module-level data of backend.py *)

all_user_ids == all_women_ids \o all_men_ids

Range(s) == {s[i] : i \in 1..Len(s)}
Women == Range(all_women_ids)
Men == Range(all_men_ids)
Users == Range(all_user_ids)

IsWoman(u) == u \in Women

Min(a, b) == IF a < b THEN a ELSE b
Max(a, b) == IF a < b THEN b ELSE a

\* b ^ e for a natural number e, and 1 for a negative e
RECURSIVE Pow(_, _)
Pow(b, e) == IF e <= 0 THEN 1 ELSE b * Pow(b, e - 1)

----------------------------------------------------------------------------
(* Python list operations used by the engine *)

RECURSIVE Reversed(_)
Reversed(s) == IF s = <<>> THEN <<>> ELSE Reversed(Tail(s)) \o <<Head(s)>>

\* A slice bound n of a list of length len: negative bounds count from the end.
PyIndex(n, len) == IF n < 0 THEN Max(n + len, 0) ELSE Min(n, len)

\* s[:n]
SliceTo(s, n) == SubSeq(s, 1, PyIndex(n, Len(s)))

\* s[n:]
SliceFrom(s, n) == SubSeq(s, PyIndex(n, Len(s)) + 1, Len(s))

\* str.upper() on the values of incoming_order the model uses
Upper(s) == CASE s = "lifo" -> "LIFO"
              [] s = "fifo" -> "FIFO"
              [] OTHER -> s

\* All orders random.shuffle can leave a list in
Perms(s) == {p \in [1..Len(s) -> Range(s)] :
                \A i, j \in 1..Len(s) : i # j => p[i] # p[j]}

----------------------------------------------------------------------------
(* Probability lookups (the lambdas get_prob and get_reciprocal) *)

get_prob(user, cand) ==
    IF IsWoman(user) THEN prob_women_likes_men[user][cand]
                     ELSE prob_men_likes_women[user][cand]

get_reciprocal(user, cand) ==
    IF IsWoman(user) THEN prob_men_likes_women[cand][user]
                     ELSE prob_women_likes_men[cand][user]

----------------------------------------------------------------------------
(* (a) incoming portion *)

\* user_incoming: a copy of the pending list, reversed under LIFO
OrderedIncoming(q) ==
    IF Upper(incoming_order) = "LIFO" THEN Reversed(q) ELSE q

NumIncoming(u_in) == Min(Len(u_in), daily_queue_size)

\* the slice ends one entry early: user_incoming[:num_incoming - 1]
IncomingQueueShort(u_in) == SliceTo(u_in, NumIncoming(u_in) - 1)

\* incoming_queue = user_incoming[:num_incoming]
IncomingQueue(u_in) == SliceTo(u_in, NumIncoming(u_in))

\* the slice starts one entry late: user_incoming[num_incoming + 1:]
RemainingIncomingOffByOne(u_in) == SliceFrom(u_in, NumIncoming(u_in) + 1)

\* what is stored back: user_incoming[num_incoming:]
RemainingIncoming(u_in) == SliceFrom(u_in, NumIncoming(u_in))

----------------------------------------------------------------------------
(* candidate pool *)

OppositeIds(user) == IF IsWoman(user) THEN all_men_ids ELSE all_women_ids

\* opposite group minus the user's matches, in the order of the id list
PoolUnmatched(user) ==
    SelectSeq(OppositeIds(user), LAMBDA cid : cid \notin matches[user])

\* ... minus the senders of the incoming portion
CandidatePool(user, incoming_queue) ==
    LET incoming_ids == {incoming_queue[i][1] : i \in 1..Len(incoming_queue)}
    IN  SelectSeq(PoolUnmatched(user), LAMBDA cid : cid \notin incoming_ids)

----------------------------------------------------------------------------
(* (b) scores and fresh recommendations.  A score is the exact rational    *)
(* n / d of  P_ij * 1/(1 + w_queue * Q_j) * P_ji ^ w_reciprocal.           *)

QueueDenominator(q) == WqDen + weight_queue_penalty * q

\* the queue penalty multiplies the score instead of dividing it
ScoreValuePenaltyMultiplies(p, r, q, wr, wq) ==
    [n |-> p * (WqDen + wq * q) * Pow(r, wr) * Pow(ProbDen, -wr),
     d |-> ProbDen * WqDen * Pow(ProbDen, wr) * Pow(r, -wr)]

\* The score of a candidate with P_ij = p, P_ji = r and q pending likes under
\* the weights wr and wq.  A negative wr turns the power over: (r / D) ^ (-w)
\* is D ^ w / r ^ w.  (The matrices of the model hold no 0 where the weight
\* is negative.)
ScoreValue(p, r, q, wr, wq) ==
    [n |-> p * WqDen * Pow(r, wr) * Pow(ProbDen, -wr),
     d |-> ProbDen * Pow(ProbDen, wr) * Pow(r, -wr) * (WqDen + wq * q)]

Score(user, cand, likes) ==
    ScoreValue(get_prob(user, cand), get_reciprocal(user, cand),
               Len(likes[cand]), weight_reciprocal, weight_queue_penalty)

\* 1 / (1 + weight_queue_penalty * q) raises ZeroDivisionError
ZeroDivision(pool, likes) ==
    \E i \in 1..Len(pool) : QueueDenominator(Len(likes[pool[i]])) = 0

\* a >= b for rationals with non-zero denominators
ScoreGE(a, b) ==
    LET sa == IF a.d < 0 THEN -1 ELSE 1
        sb == IF b.d < 0 THEN -1 ELSE 1
    IN  (sa * a.n) * (sb * b.d) >= (sb * b.n) * (sa * a.d)

\* the pool as it is, not sorted
SortedCandidatesPoolOrder(user, pool, likes) == pool

\* sorted(rec_scores.items(), key = score, reverse = True): a stable sort,
\* equal scores keep the order of the pool
RECURSIVE SortedCandidates(_, _, _)
SortedCandidates(user, pool, likes) ==
    IF pool = <<>> THEN <<>>
    ELSE LET n    == Len(pool)
             x    == pool[n]
             rest == SortedCandidates(user, SubSeq(pool, 1, n - 1), likes)
             k    == Cardinality({i \in 1..Len(rest) :
                        ScoreGE(Score(user, rest[i], likes),
                                Score(user, x, likes))})
         IN  SubSeq(rest, 1, k) \o <<x>> \o SubSeq(rest, k + 1, Len(rest))

\* one fresh recommendation too many
NumFreshOffByOne(num_incoming) == daily_queue_size - num_incoming + 1

NumFresh(num_incoming) == daily_queue_size - num_incoming

FreshCandidates(user, pool, num_incoming, likes) ==
    IF NumFresh(num_incoming) > 0 /\ pool # <<>>
    THEN SliceTo(SortedCandidates(user, pool, likes), NumFresh(num_incoming))
    ELSE <<>>

\* the fresh entries come first
DailyQueueFreshFirst(incoming_queue, fresh, d) ==
    [i \in 1..Len(fresh) |->
        [candidate |-> fresh[i], source |-> "fresh", sent_day |-> d]]
    \o [i \in 1..Len(incoming_queue) |->
        [candidate |-> incoming_queue[i][1], source |-> "incoming",
         sent_day |-> incoming_queue[i][2]]]

\* the incoming entries are stamped with today, not with their send day
DailyQueueRestamped(incoming_queue, fresh, d) ==
    [i \in 1..Len(incoming_queue) |->
        [candidate |-> incoming_queue[i][1], source |-> "incoming",
         sent_day |-> d]]
    \o [i \in 1..Len(fresh) |->
        [candidate |-> fresh[i], source |-> "fresh", sent_day |-> d]]

\* (c) daily queue: incoming entries, then fresh entries stamped with today
DailyQueue(incoming_queue, fresh, d) ==
    [i \in 1..Len(incoming_queue) |->
        [candidate |-> incoming_queue[i][1], source |-> "incoming",
         sent_day |-> incoming_queue[i][2]]]
    \o [i \in 1..Len(fresh) |->
        [candidate |-> fresh[i], source |-> "fresh", sent_day |-> d]]

----------------------------------------------------------------------------
(* The two seeded random streams.  A seed fixes the values each stream     *)
(* yields; the model learns them as they are drawn.  When track_stream is  *)
(* set, the values drawn are kept, so that a later call with the same seed *)
(* draws the same values again.                                            *)

\* np.random.rand() yields a value in [0, 1)
Rolls == 0..(ProbDen - 1)

\* a call that does not set the seeds: the streams go on where they were
ReseedNot(p) == p

\* np.random.seed(random_seed); random.seed(random_seed): back to the start
Reseed(p) == 0

ShuffleChoices ==
    IF track_stream /\ py_pos < Len(py_stream)
    THEN {py_stream[py_pos + 1]}
    ELSE Perms(all_user_ids)

RollChoices ==
    IF track_stream /\ np_pos < Len(np_stream)
    THEN {np_stream[np_pos + 1]}
    ELSE Rolls

DrawShuffle(order) ==
    IF track_stream
    THEN /\ py_pos' = py_pos + 1
         /\ py_stream' = IF py_pos < Len(py_stream) THEN py_stream
                         ELSE Append(py_stream, order)
    ELSE UNCHANGED <<py_pos, py_stream>>

DrawRoll(roll) ==
    IF track_stream
    THEN /\ np_pos' = np_pos + 1
         /\ np_stream' = IF np_pos < Len(np_stream) THEN np_stream
                         ELSE Append(np_stream, roll)
    ELSE UNCHANGED <<np_pos, np_stream>>

----------------------------------------------------------------------------
(* Initial state: the state dictionaries of a call *)

EmptyLikes == [uid \in Users |-> <<>>]
EmptySets == [uid \in Users |-> {}]

InitRun ==
    /\ incoming_likes = EmptyLikes
    /\ matches = EmptySets
    /\ likes_sent = EmptySets
    /\ daily_logs = <<>>
    /\ day = 0
    /\ day_records = <<>>
    /\ login_order = <<>>
    /\ pos = 0
    /\ user_incoming = <<>>
    /\ daily_queue = <<>>
    /\ qi = 0
    /\ pc = "day"
    /\ py_stream = <<>>
    /\ np_stream = <<>>
    /\ py_pos = Reseed(0)
    /\ np_pos = Reseed(0)
    /\ first_result = <<>>

----------------------------------------------------------------------------
(* The day loop *)

\* for day in range(1, num_days + 1): day_records = []; shuffle
StartDay ==
    /\ pc = "day"
    /\ day < num_days
    /\ \E order \in ShuffleChoices :
          /\ login_order' = order
          /\ DrawShuffle(order)
    /\ day' = day + 1
    /\ day_records' = <<>>
    /\ pos' = 1
    /\ pc' = "user"
    /\ UNCHANGED <<config, incoming_likes, matches, likes_sent, daily_logs,
                   user_incoming, daily_queue, qi, np_pos, np_stream,
                   track_stream, calls_left, first_result>>

\* for user in login_order: steps (a), (b), (c)
BuildQueue ==
    /\ pc = "user"
    /\ pos <= Len(login_order)
    /\ LET user           == login_order[pos]
           u_in           == OrderedIncoming(incoming_likes[user])
           incoming_queue == IncomingQueue(u_in)
           likes          == [incoming_likes EXCEPT
                                 ![user] = RemainingIncoming(u_in)]
           pool           == CandidatePool(user, incoming_queue)
       IN  /\ user_incoming' = u_in
           /\ incoming_likes' = likes
           /\ IF ZeroDivision(pool, likes)
              THEN /\ pc' = "aborted"
                   /\ UNCHANGED <<daily_queue, qi>>
              ELSE /\ daily_queue' =
                        DailyQueue(incoming_queue,
                                   FreshCandidates(user, pool,
                                       NumIncoming(u_in), likes),
                                   day)
                   /\ qi' = 1
                   /\ pc' = "eval"
    /\ UNCHANGED <<config, matches, likes_sent, daily_logs, day, day_records,
                   login_order, pos, track_stream, py_stream, np_stream,
                   py_pos, np_pos, calls_left, first_result>>

\* the check for an existing match is left out
AlreadyMatchedNever(user, candidate) == FALSE

\* if candidate in matches[user]: continue
AlreadyMatched(user, candidate) == candidate \in matches[user]

\* roll < like_prob
Decision(roll, like_prob) == IF roll < like_prob THEN "Like" ELSE "Pass"

\* the like of the other side is never found
ReciprocatedNever(user, candidate) == FALSE

\* the test reads the likes of the wrong side
ReciprocatedByCandidate(user, candidate) == candidate \in likes_sent[user]

\* if user in likes_sent[candidate]
Reciprocated(user, candidate) == user \in likes_sent[candidate]

\* the candidate's side of the match names the candidate
AddMatchSelf(m, user, candidate) ==
    [m EXCEPT ![user] = @ \cup {candidate},
              ![candidate] = @ \cup {candidate}]

\* only the evaluator's side of the match is stored
AddMatchOneSided(m, user, candidate) ==
    [m EXCEPT ![user] = @ \cup {candidate}]

\* matches[user].add(candidate); matches[candidate].add(user)
AddMatch(m, user, candidate) ==
    [m EXCEPT ![user] = @ \cup {candidate}, ![candidate] = @ \cup {user}]

\* the like is not remembered
AddLikeForgotten(ls, user, candidate) == ls

\* the set is replaced by the new like
AddLikeReplacing(ls, user, candidate) == [ls EXCEPT ![user] = {candidate}]

\* likes_sent[user].add(candidate)
AddLike(ls, user, candidate) == [ls EXCEPT ![user] = @ \cup {candidate}]

\* the entry is appended twice
SendLikeTwice(likes, user, candidate, source, d) ==
    IF source = "fresh"
    THEN [likes EXCEPT ![candidate] = Append(Append(@, <<user, d>>),
                                             <<user, d>>)]
    ELSE likes

\* the entry is not appended
SendLikeDropped(likes, user, candidate, source, d) == likes

\* if source == "fresh": incoming_likes[candidate].append((user, day))
SendLike(likes, user, candidate, source, d) ==
    IF source = "fresh"
    THEN [likes EXCEPT ![candidate] = Append(@, <<user, d>>)]
    ELSE likes

\* (d) one iteration of the loop over daily_queue
Evaluate ==
    /\ pc = "eval"
    /\ qi <= Len(daily_queue)
    /\ qi' = qi + 1
    /\ LET user      == login_order[pos]
           entry     == daily_queue[qi]
           candidate == entry.candidate
           like_prob == get_prob(user, candidate)
       IN  IF AlreadyMatched(user, candidate)
           THEN UNCHANGED <<matches, likes_sent, incoming_likes, day_records,
                            np_pos, np_stream>>
           ELSE \E roll \in RollChoices :
                  LET decision     == Decision(roll, like_prob)
                      match_formed == decision = "Like"
                                      /\ Reciprocated(user, candidate)
                  IN  /\ DrawRoll(roll)
                      /\ matches' = IF match_formed
                                    THEN AddMatch(matches, user, candidate)
                                    ELSE matches
                      /\ likes_sent' =
                            IF decision = "Like" /\ ~match_formed
                            THEN AddLike(likes_sent, user, candidate)
                            ELSE likes_sent
                      /\ incoming_likes' =
                            IF decision = "Like" /\ ~match_formed
                            THEN SendLike(incoming_likes, user, candidate,
                                          entry.source, day)
                            ELSE incoming_likes
                      /\ day_records' = Append(day_records,
                            [Day |-> day, UserID |-> user,
                             CandidateID |-> candidate,
                             QueueType |-> entry.source,
                             LikeProbability |-> like_prob,
                             RandomRoll |-> roll,
                             Decision |-> decision,
                             MatchFormed |-> match_formed,
                             Delay |-> day - entry.sent_day])
    /\ UNCHANGED <<config, daily_logs, day, login_order, pos, user_incoming,
                   daily_queue, pc, track_stream, py_stream, py_pos,
                   calls_left, first_result>>

\* the loop over the login order leaves out every second user
NextUserSkips ==
    /\ pc = "eval"
    /\ qi > Len(daily_queue)
    /\ pos' = pos + 2
    /\ pc' = "user"
    /\ UNCHANGED <<config, incoming_likes, matches, likes_sent, daily_logs,
                   day, day_records, login_order, user_incoming, daily_queue,
                   qi, track_stream, py_stream, np_stream, py_pos, np_pos,
                   calls_left, first_result>>

\* the loop over daily_queue is exhausted: on to the next user
NextUser ==
    /\ pc = "eval"
    /\ qi > Len(daily_queue)
    /\ pos' = pos + 1
    /\ pc' = "user"
    /\ UNCHANGED <<config, incoming_likes, matches, likes_sent, daily_logs,
                   day, day_records, login_order, user_incoming, daily_queue,
                   qi, track_stream, py_stream, np_stream, py_pos, np_pos,
                   calls_left, first_result>>

\* pd.DataFrame(day_records): the table of a finished day is never read by
\* the engine again; it is kept as its row count and the Day values it holds
DataFrame(records) ==
    [rows |-> Len(records), Day |-> {records[i].Day : i \in 1..Len(records)}]

\* daily_logs.append(pd.DataFrame(day_records))
EndDay ==
    /\ pc = "user"
    /\ pos > Len(login_order)
    /\ daily_logs' = Append(daily_logs, DataFrame(day_records))
    /\ pc' = "day"
    /\ UNCHANGED <<config, incoming_likes, matches, likes_sent, day,
                   day_records, login_order, pos, user_incoming, daily_queue,
                   qi, track_stream, py_stream, np_stream, py_pos, np_pos,
                   calls_left, first_result>>

\* return daily_logs, matches, incoming_likes
Return ==
    /\ pc = "day"
    /\ day >= num_days
    /\ pc' = "done"
    /\ UNCHANGED <<config, incoming_likes, matches, likes_sent, daily_logs,
                   day, day_records, login_order, pos, user_incoming,
                   daily_queue, qi, track_stream, py_stream, np_stream,
                   py_pos, np_pos, calls_left, first_result>>

Next == StartDay \/ BuildQueue \/ Evaluate \/ NextUser \/ EndDay \/ Return

----------------------------------------------------------------------------
(* Inputs *)

\* a matrix with the same probability everywhere
Uniform(rows, cols, v) == [r \in rows |-> [c \in cols |-> v]]

Orders == {"FIFO", "LIFO"}

\* weight_reciprocal = 0.0, weight_queue_penalty = 0.0: what the form offers
FormWeights == [reciprocal |-> 0, queue_penalty |-> 0]

\* weight_reciprocal = 1.0, weight_queue_penalty = 0.5: the defaults of the
\* function
DefaultWeights == [reciprocal |-> 1, queue_penalty |-> 1]

\* probabilities 0.5 and 1.0
Half == ProbDen \div 2
One == ProbDen

\* one woman and two men, or two women and one man
SmallPopulation ==
    \/ /\ all_women_ids = <<"W1">>
       /\ all_men_ids = <<"M1", "M2">>
    \/ /\ all_women_ids = <<"W1", "W2">>
       /\ all_men_ids = <<"M1">>

\* run_dating_simulation is called directly, not by the web application
DirectCall == form = <<>>

SingleCall ==
    /\ track_stream = FALSE
    /\ calls_left = 0

\* configurations the interface of the engine allows: capacity >= 1,
\* weights >= 0, probabilities in [0, 1]
Init ==
    /\ SmallPopulation
    /\ num_days = DefaultNumDays
    /\ daily_queue_size \in 1..MaxCapacity
    /\ incoming_order \in Orders
    /\ \E w \in {FormWeights, DefaultWeights} :
          /\ weight_reciprocal = w.reciprocal
          /\ weight_queue_penalty = w.queue_penalty
    /\ prob_women_likes_men \in [Women -> [Men -> {Half, One}]]
    /\ prob_men_likes_women \in [Men -> [Women -> {Half, One}]]
    /\ SingleCall
    /\ DirectCall
    /\ InitRun

Spec == Init /\ [][Next]_vars

----------------------------------------------------------------------------
(* Calls with a configuration the interface forbids.  The function checks  *)
(* none of its parameters, so the run starts with them as they are.        *)

InvalidConfig ==
    \/ daily_queue_size < 1
    \/ weight_reciprocal < 0
    \/ weight_queue_penalty < 0

InitUnchecked ==
    /\ all_women_ids = <<"W1">>
    /\ all_men_ids = <<"M1", "M2">>
    /\ num_days = DefaultNumDays
    /\ daily_queue_size \in (-1)..MaxCapacity
    /\ incoming_order \in Orders
    /\ \E w \in {FormWeights, DefaultWeights,
                 [reciprocal |-> -1, queue_penalty |-> 0],
                 [reciprocal |-> 0, queue_penalty |-> -WqDen]} :
          /\ weight_reciprocal = w.reciprocal
          /\ weight_queue_penalty = w.queue_penalty
    /\ prob_women_likes_men = Uniform(Women, Men, Half)
    /\ prob_men_likes_women \in [Men -> [Women -> {Half, One}]]
    /\ SingleCall
    /\ DirectCall
    /\ InitRun

SpecUnchecked == InitUnchecked /\ [][Next]_vars

----------------------------------------------------------------------------
(* The example of two users per group: capacity 2, one day, every          *)
(* probability 1.0, both weights 0.                                        *)

InitExample ==
    /\ all_women_ids = <<"W1", "W2">>
    /\ all_men_ids = <<"M1", "M2">>
    /\ num_days = 1
    /\ daily_queue_size = 2
    /\ incoming_order \in Orders
    /\ weight_reciprocal = 0
    /\ weight_queue_penalty = 0
    /\ prob_women_likes_men = Uniform(Women, Men, One)
    /\ prob_men_likes_women = Uniform(Men, Women, One)
    /\ SingleCall
    /\ DirectCall
    /\ InitRun

SpecExample == InitExample /\ [][Next]_vars

----------------------------------------------------------------------------
(* Two calls with the same arguments and the same seed, one after the      *)
(* other in the same process.                                              *)

\* what a call leaves: daily_logs, matches, incoming_likes, with the records
\* of the last day and likes_sent beside them
Outcome ==
    [daily_logs |-> daily_logs, last_records |-> day_records,
     matches |-> matches, incoming_likes |-> incoming_likes,
     likes_sent |-> likes_sent]

\* the caller calls run_dating_simulation again: seeds are set again and the
\* state dictionaries are created again
SecondCall ==
    /\ pc = "done"
    /\ calls_left > 0
    /\ calls_left' = calls_left - 1
    /\ first_result' = Outcome
    /\ py_pos' = Reseed(py_pos)
    /\ np_pos' = Reseed(np_pos)
    /\ incoming_likes' = EmptyLikes
    /\ matches' = EmptySets
    /\ likes_sent' = EmptySets
    /\ daily_logs' = <<>>
    /\ day' = 0
    /\ day_records' = <<>>
    /\ login_order' = <<>>
    /\ pos' = 0
    /\ user_incoming' = <<>>
    /\ daily_queue' = <<>>
    /\ qi' = 0
    /\ pc' = "day"
    /\ UNCHANGED <<config, track_stream, py_stream, np_stream>>

InitTwoRuns ==
    /\ SmallPopulation
    /\ num_days \in {1, 2}
    /\ daily_queue_size \in 1..MaxCapacity
    /\ incoming_order \in Orders
    /\ weight_reciprocal = DefaultWeights.reciprocal
    /\ weight_queue_penalty = DefaultWeights.queue_penalty
    /\ prob_women_likes_men = Uniform(Women, Men, Half)
    /\ prob_men_likes_women = Uniform(Men, Women, Half)
    /\ track_stream = TRUE
    /\ calls_left = 1
    /\ DirectCall
    /\ InitRun

NextTwoRuns == Next \/ SecondCall

SpecTwoRuns == InitTwoRuns /\ [][NextTwoRuns]_vars

----------------------------------------------------------------------------
(* Helpers of the properties *)

\* indices of the records of the current day that user u produced
RecordsOf(u) == {i \in 1..Len(day_records) : day_records[i].UserID = u}

\* the (sender, day_sent) pairs of the incoming entries of a daily queue
IncomingPart(dq) ==
    LET inc == SelectSeq(dq, LAMBDA e : e.source = "incoming")
    IN  [i \in 1..Len(inc) |-> <<inc[i].candidate, inc[i].sent_day>>]

\* a pending list whose send days never decrease
DaysAscend(q) == \A i, j \in 1..Len(q) : i < j => q[i][2] <= q[j][2]

\* the step that builds the daily queue of a user
Drains == pc = "user" /\ pc' = "eval"

\* the step that appends a record
Records == Len(day_records') > Len(day_records)

NewRecord == day_records'[Len(day_records')]

----------------------------------------------------------------------------
(* C1 - MatchSet symmetry: in every state, and so at the end of every      *)
(* user's processing and after every day, v is in matches[u] if and only   *)
(* if u is in matches[v].                                                  *)
MatchSymmetry ==
    \A u, v \in Users : v \in matches[u] <=> u \in matches[v]

\* a run that ended with a match formed
MatchSymmetryWitness ==
    /\ pc = "done"
    /\ \E u, v \in Users : v \in matches[u] /\ u \in matches[v]

(* C2 - Capacity bound: with daily_queue_size >= 1, no user has more       *)
(* records in a day than daily_queue_size, whatever the login order, the   *)
(* queue discipline and the length of the pending list.                    *)
CapacityBound ==
    daily_queue_size >= 1 =>
        \A u \in Users : Cardinality(RecordsOf(u)) <= daily_queue_size

\* a user whose pending list was longer than the capacity used it up
CapacityBoundWitness ==
    /\ pc = "eval"
    /\ Len(user_incoming) > daily_queue_size
    /\ Cardinality(RecordsOf(login_order[pos])) = daily_queue_size

(* C3 - Queue drain under FIFO: the step that processes a user with        *)
(* pending list q takes the min(|q|, C) earliest entries of q, in order,   *)
(* as the incoming portion and leaves the rest of q pending in its order;  *)
(* q itself is in arrival order (send days never decrease).                *)
FifoDrain ==
    [][(Drains /\ Upper(incoming_order) = "FIFO") =>
        LET u == login_order[pos]
            q == incoming_likes[u]
            n == Min(Len(q), daily_queue_size)
        IN  /\ DaysAscend(q)
            /\ IncomingPart(daily_queue') = SubSeq(q, 1, n)
            /\ incoming_likes'[u] = SubSeq(q, n + 1, Len(q))]_vars

\* a FIFO drain that left two or more entries pending
FifoDrainWitness ==
    /\ pc = "eval"
    /\ Upper(incoming_order) = "FIFO"
    /\ Len(user_incoming) >= daily_queue_size + 2
    /\ Len(incoming_likes[login_order[pos]]) >= 2
    /\ Len(IncomingPart(daily_queue)) = daily_queue_size

(* C4 - Queue drain under LIFO: the step that processes a user with        *)
(* pending list q takes the n = min(|q|, C) latest entries of q, most      *)
(* recent first, and leaves the earlier entries pending in their original  *)
(* order.                                                                  *)
LifoDrain ==
    [][(Drains /\ Upper(incoming_order) = "LIFO") =>
        LET u == login_order[pos]
            q == incoming_likes[u]
            n == Min(Len(q), daily_queue_size)
        IN  /\ DaysAscend(q)
            /\ IncomingPart(daily_queue') =
                   Reversed(SubSeq(q, Len(q) - n + 1, Len(q)))
            /\ incoming_likes'[u] = SubSeq(q, 1, Len(q) - n)]_vars

(* C5 - No duplicate evaluation within a day: the records of one user in   *)
(* one day never hold the same candidate twice.                            *)
NoDuplicateEvaluation ==
    \A i, j \in 1..Len(day_records) :
        (i < j /\ day_records[i].UserID = day_records[j].UserID)
            => day_records[i].CandidateID # day_records[j].CandidateID

(* C6 - No re-evaluation of matched candidates: a record is appended, and  *)
(* a roll drawn, only for a candidate that is not in the evaluator's       *)
(* matches when the entry is reached; an entry whose candidate is matched  *)
(* is passed over with no record and no draw.                              *)
NoReevaluation ==
    [][/\ Records => /\ NewRecord.CandidateID \notin matches[NewRecord.UserID]
                     /\ np_pos' = np_pos + 1
       /\ np_pos' # np_pos => (Records \/ pc = "done")
       /\ (/\ pc = "eval"
           /\ qi <= Len(daily_queue)
           /\ daily_queue[qi].candidate \in matches[login_order[pos]])
          => /\ day_records' = day_records
             /\ np_pos' = np_pos
             /\ qi' = qi + 1]_vars

\* an entry was skipped: the queue is exhausted with fewer records than
\* entries, and the user is matched with a candidate of the queue
NoReevaluationWitness ==
    /\ pc = "eval"
    /\ qi > Len(daily_queue)
    /\ Cardinality(RecordsOf(login_order[pos])) < Len(daily_queue)
    /\ \E i \in 1..Len(daily_queue) :
          daily_queue[i].candidate \in matches[login_order[pos]]

(* C7 - Match formation rule: an evaluation forms a match exactly when its *)
(* decision is Like and the evaluator is in likes_sent of the candidate    *)
(* before it; then each is added to the matches of the other.  Any other   *)
(* evaluation, and any step that is no evaluation, leaves matches as they  *)
(* are.                                                                    *)
MatchFormationRule ==
    [][IF Records
       THEN LET r      == NewRecord
                u      == r.UserID
                c      == r.CandidateID
                mutual == r.Decision = "Like" /\ u \in likes_sent[c]
            IN  /\ r.MatchFormed = mutual
                /\ mutual =>
                     /\ matches'[u] = matches[u] \cup {c}
                     /\ matches'[c] = matches[c] \cup {u}
                     /\ \A x \in Users \ {u, c} : matches'[x] = matches[x]
                /\ ~mutual => matches' = matches
       ELSE matches' = matches]_vars

\* a day with a match, a one-sided like and a pass
MatchFormationWitness ==
    /\ \E i \in 1..Len(day_records) : day_records[i].MatchFormed
    /\ \E i \in 1..Len(day_records) :
          day_records[i].Decision = "Like" /\ ~day_records[i].MatchFormed
    /\ \E i \in 1..Len(day_records) : day_records[i].Decision = "Pass"

(* C8 - Invalid configuration is rejected: with daily_queue_size < 1 or a  *)
(* negative weight no day is started, no user is processed, no record is   *)
(* produced and the call does not return a result.                         *)
InvalidConfigRejected ==
    InvalidConfig =>
        /\ day = 0
        /\ pos = 0
        /\ day_records = <<>>
        /\ daily_logs = <<>>
        /\ pc \notin {"user", "eval", "done"}

FullMatch ==
    /\ \A i \in 1..Len(day_records) : day_records[i].Decision = "Like"
    /\ pc = "done" =>
          \A u \in Users : matches[u] = Range(OppositeIds(u))

\* the example run ended with all four cross pairs matched after eight
\* evaluations
FullMatchWitness ==
    /\ pc = "done"
    /\ Len(all_women_ids) = 2
    /\ Len(all_men_ids) = 2
    /\ \A u \in Users : matches[u] = Range(OppositeIds(u))
    /\ Len(day_records) = 8

----------------------------------------------------------------------------
(* Runs on a probability matrix with values outside [0, 1].  The engine    *)
(* reads the matrices as they are.                                         *)

Malformed(p) == p < 0 \/ p > ProbDen

InitMalformed ==
    /\ all_women_ids = <<"W1">>
    /\ all_men_ids = <<"M1", "M2">>
    /\ num_days = DefaultNumDays
    /\ daily_queue_size \in 1..MaxCapacity
    /\ incoming_order \in Orders
    /\ weight_reciprocal = DefaultWeights.reciprocal
    /\ weight_queue_penalty = DefaultWeights.queue_penalty
    /\ prob_women_likes_men \in [Women -> [Men -> {Half, One}]]
    /\ prob_men_likes_women \in [Men -> [Women -> {-1, Half, ProbDen + 1}]]
    /\ \E m \in Men, w \in Women : Malformed(prob_men_likes_women[m][w])
    /\ SingleCall
    /\ DirectCall
    /\ InitRun

SpecMalformed == InitMalformed /\ [][Next]_vars

(* C11 - A malformed probability aborts the run: once a probability        *)
(* outside [0, 1] has been read for an evaluation the run is aborted, so   *)
(* no record carries such a probability and no run that has read one       *)
(* returns a result.                                                       *)
MalformedProbabilityAborts ==
    /\ \A i \in 1..Len(day_records) :
          ~Malformed(day_records[i].LikeProbability)
    /\ (pc = "done" /\ daily_logs # <<>>) =>
          \A m \in Men, w \in Women : ~Malformed(prob_men_likes_women[m][w])

(* C12 - Monotonic state: in every step of a run each user's matches and   *)
(* each user's likes_sent keep every identifier they hold.                 *)
MonotonicState ==
    [][\A u \in Users : /\ matches[u] \subseteq matches'[u]
                        /\ likes_sent[u] \subseteq likes_sent'[u]]_vars

\* a user with two matches beside a user with two likes sent
MonotonicStateWitness ==
    /\ \E u \in Users : Cardinality(matches[u]) = 2
    /\ \E u \in Users : Cardinality(likes_sent[u]) = 2

----------------------------------------------------------------------------
(* Scores over the whole range of valid inputs: probabilities 0, 0.5 and   *)
(* 1.0, weights 0 to 2 (reciprocal) and 0 to 1.0 (queue penalty).          *)

InitScore ==
    /\ all_women_ids = <<"W1">>
    /\ all_men_ids = <<"M1", "M2">>
    /\ num_days = 1
    /\ daily_queue_size \in 1..MaxCapacity
    /\ incoming_order = "FIFO"
    /\ weight_reciprocal \in 0..2
    /\ weight_queue_penalty \in 0..WqDen
    /\ prob_women_likes_men \in [Women -> [Men -> {0, Half, One}]]
    /\ prob_men_likes_women \in [Men -> [Women -> {0, Half, One}]]
    /\ SingleCall
    /\ DirectCall
    /\ InitRun

SpecScore == InitScore /\ [][Next]_vars

\* a > b for rationals with non-zero denominators
ScoreGT(a, b) == ~ScoreGE(b, a)

\* the score of cand for user in this state, under other weights
ScoreUnder(user, cand, wr, wq) ==
    ScoreValue(get_prob(user, cand), get_reciprocal(user, cand),
               Len(incoming_likes[cand]), wr, wq)

\* the weights above w that are compared with w
Raised(w) == (w + 1)..(w + 2)

(* C13 as stated - Score monotonicity: raising weight_queue_penalty never  *)
(* raises the score; raising weight_reciprocal lowers the score whenever   *)
(* the reciprocal probability is below 1 and leaves it as it is when the   *)
(* reciprocal probability is 1.                                            *)
ScoreMonotonicityStrict ==
    \A u \in Users : \A c \in Range(OppositeIds(u)) :
        LET s == Score(u, c, incoming_likes)
        IN  /\ \A wq \in Raised(weight_queue_penalty) :
                  ScoreGE(s, ScoreUnder(u, c, weight_reciprocal, wq))
            /\ \A wr \in Raised(weight_reciprocal) :
                  LET t == ScoreUnder(u, c, wr, weight_queue_penalty)
                  IN  /\ get_reciprocal(u, c) < One => ScoreGT(s, t)
                      /\ get_reciprocal(u, c) = One =>
                            (ScoreGE(s, t) /\ ScoreGE(t, s))

(* C13 as amended - raising weight_queue_penalty never raises the score;   *)
(* raising weight_reciprocal never raises it, lowers it whenever the       *)
(* reciprocal probability is above 0 and below 1 and P(user -> cand) is    *)
(* above 0, and leaves it as it is when the reciprocal probability is 1.   *)
ScoreMonotonicity ==
    \A u \in Users : \A c \in Range(OppositeIds(u)) :
        LET s == Score(u, c, incoming_likes)
        IN  /\ \A wq \in Raised(weight_queue_penalty) :
                  ScoreGE(s, ScoreUnder(u, c, weight_reciprocal, wq))
            /\ \A wr \in Raised(weight_reciprocal) :
                  LET t == ScoreUnder(u, c, wr, weight_queue_penalty)
                      r == get_reciprocal(u, c)
                  IN  /\ ScoreGE(s, t)
                      /\ (0 < r /\ r < One /\ get_prob(u, c) > 0)
                            => ScoreGT(s, t)
                      /\ r = One => ScoreGE(t, s)

\* a candidate with pending likes, a reciprocal probability of 0.5 and a
\* probability above 0 was scored under weights above 0
ScoreMonotonicityWitness ==
    /\ pc = "eval"
    /\ weight_reciprocal > 0
    /\ weight_queue_penalty > 0
    /\ \E c \in Range(OppositeIds(login_order[pos])) :
          /\ Len(incoming_likes[c]) > 0
          /\ get_reciprocal(login_order[pos], c) = Half
          /\ get_prob(login_order[pos], c) > 0
          /\ c \notin matches[login_order[pos]]

----------------------------------------------------------------------------
(* The web application: index() reads the form of a POST request and calls *)
(* run_dating_simulation with the keyword arguments it passes; a parameter *)
(* it does not pass keeps the default of the function.                     *)

DefaultQueueSize == 5

DefaultOrder == "FIFO"

\* request.form.get(key, default)
FormGet(f, key, default) == IF key \in DOMAIN f THEN f[key] ELSE default

\* the fields the page posts: the select incoming_order and the two weights
\* (0.0 or 1.0 here)
Forms ==
    [incoming_order : Orders,
     weight_reciprocal : {0, 1},
     weight_queue_penalty : {0, WqDen}]

\* the arguments run_dating_simulation gets from index(): incoming_order
\* and num_days are read or not, but never passed, so the defaults apply
IndexCall(f) ==
    [num_days |-> DefaultNumDays,
     daily_queue_size |-> FormGet(f, "daily_queue_size", DefaultQueueSize),
     incoming_order |-> DefaultOrder,
     weight_reciprocal |->
         FormGet(f, "weight_reciprocal", DefaultWeights.reciprocal),
     weight_queue_penalty |->
         FormGet(f, "weight_queue_penalty", DefaultWeights.queue_penalty)]

InitForm ==
    /\ all_women_ids = <<"W1">>
    /\ all_men_ids = <<"M1", "M2">>
    /\ form \in Forms
    /\ num_days = IndexCall(form).num_days
    /\ daily_queue_size = IndexCall(form).daily_queue_size
    /\ incoming_order = IndexCall(form).incoming_order
    /\ weight_reciprocal = IndexCall(form).weight_reciprocal
    /\ weight_queue_penalty = IndexCall(form).weight_queue_penalty
    /\ prob_women_likes_men = Uniform(Women, Men, Half)
    /\ prob_men_likes_women \in [Men -> [Women -> {Half, One}]]
    /\ SingleCall
    /\ InitRun

SpecForm == InitForm /\ [][Next]_vars

(* C14 - The queue discipline submitted with the form is the one applied:  *)
(* every drain of the run made for the request takes the pending queue in  *)
(* the order the form names (LIFO: newest first, FIFO: oldest first).      *)
SubmittedDisciplineApplied ==
    [][Drains =>
          user_incoming' =
              IF Upper(form["incoming_order"]) = "LIFO"
              THEN Reversed(incoming_likes[login_order[pos]])
              ELSE incoming_likes[login_order[pos]]]_vars

----------------------------------------------------------------------------
\* the entries of a daily queue with the given tag
Tagged(dq, tag) == {i \in 1..Len(dq) : dq[i].source = tag}

(* C15 - Incoming has priority over fresh: in the daily queue of the user  *)
(* being processed and in the records of every user of the day, every      *)
(* incoming entry precedes every fresh one; the queue holds at most        *)
(* C - n_in fresh entries; and when it holds a fresh entry, nothing is     *)
(* left pending for the user after the drain.                              *)
IncomingBeforeFresh ==
    /\ \A u \in Users : \A i, j \in RecordsOf(u) :
          (day_records[i].QueueType = "incoming"
              /\ day_records[j].QueueType = "fresh") => i < j
    /\ pc = "eval" =>
          /\ \A i \in Tagged(daily_queue, "incoming") :
                \A j \in Tagged(daily_queue, "fresh") : i < j
          /\ Cardinality(Tagged(daily_queue, "fresh"))
                <= daily_queue_size
                       - Cardinality(Tagged(daily_queue, "incoming"))
          /\ Tagged(daily_queue, "fresh") # {}
                => incoming_likes[login_order[pos]] = <<>>

\* a user was shown an incoming like and then a fresh recommendation
IncomingBeforeFreshWitness ==
    /\ pc = "eval"
    /\ qi > Len(daily_queue)
    /\ \E i, j \in RecordsOf(login_order[pos]) :
          /\ day_records[i].QueueType = "incoming"
          /\ day_records[j].QueueType = "fresh"

----------------------------------------------------------------------------
\* the candidates of the fresh entries of a daily queue, in their order
FreshPart(dq) ==
    LET fr == SelectSeq(dq, LAMBDA e : e.source = "fresh")
    IN  [i \in 1..Len(fr) |-> fr[i].candidate]

\* the senders of the incoming entries of a daily queue
Senders(dq) == {e[1] : e \in Range(IncomingPart(dq))}

\* the position of an identifier in its id list
IdIndex(ids, c) == CHOOSE i \in 1..Len(ids) : ids[i] = c

\* a is ranked before b for user u when the pending queues are likes:
\* by score descending, equal scores by the order of the id list
RankedBefore(u, a, b, likes) ==
    \/ ScoreGT(Score(u, a, likes), Score(u, b, likes))
    \/ /\ ScoreGE(Score(u, a, likes), Score(u, b, likes))
       /\ ScoreGE(Score(u, b, likes), Score(u, a, likes))
       /\ IdIndex(OppositeIds(u), a) < IdIndex(OppositeIds(u), b)

(* C16 - Fresh selection against a reference: the fresh list a drain       *)
(* builds for a user holds min(C - n_in, |pool|) distinct candidates of    *)
(* the pool (opposite group minus matches minus the senders just taken),   *)
(* ordered by score descending with Q the length of the candidate's        *)
(* pending queue at that moment and equal scores in id-list order; every   *)
(* pool candidate left out ranks after every one included; nobody is both  *)
(* incoming and fresh.                                                     *)
FreshSelection ==
    [][Drains =>
          LET u     == login_order[pos]
              fresh == FreshPart(daily_queue')
              n_in  == Len(IncomingPart(daily_queue'))
              pool  == (Range(OppositeIds(u)) \ matches[u])
                           \ Senders(daily_queue')
          IN  /\ Len(fresh) = Min(daily_queue_size - n_in, Cardinality(pool))
              /\ Range(fresh) \subseteq pool
              /\ \A i, j \in 1..Len(fresh) : i < j =>
                    RankedBefore(u, fresh[i], fresh[j], incoming_likes')
              /\ \A c \in pool \ Range(fresh) : \A i \in 1..Len(fresh) :
                    /\ RankedBefore(u, fresh[i], c, incoming_likes')
                    /\ ~ScoreGT(Score(u, c, incoming_likes'),
                                Score(u, fresh[i], incoming_likes'))
              /\ Range(fresh) \cap Senders(daily_queue') = {}]_vars

\* a fresh list was built that leaves out a candidate of the pool which
\* comes earlier in the id list and has likes pending
FreshSelectionWitness ==
    /\ pc = "eval"
    /\ qi = 1
    /\ weight_queue_penalty > 0
    /\ \E c \in Range(OppositeIds(login_order[pos])) \ matches[login_order[pos]] :
          /\ c \notin {daily_queue[i].candidate : i \in 1..Len(daily_queue)}
          /\ Len(incoming_likes[c]) > 0
          /\ \E i \in Tagged(daily_queue, "fresh") :
                IdIndex(OppositeIds(login_order[pos]), c)
                    < IdIndex(OppositeIds(login_order[pos]),
                              daily_queue[i].candidate)

----------------------------------------------------------------------------
(* C17 - A fresh recommendation is a candidate not yet connected to the    *)
(* user: no fresh entry still to be evaluated names a candidate the user   *)
(* has liked before (the likes of today go to other candidates, so such a  *)
(* like is of an earlier day) or one the user is matched with.             *)
FreshNotConnected ==
    pc = "eval" =>
        \A i \in Tagged(daily_queue, "fresh") :
            i >= qi =>
                /\ daily_queue[i].candidate \notin likes_sent[login_order[pos]]
                /\ daily_queue[i].candidate \notin matches[login_order[pos]]

----------------------------------------------------------------------------
(* C18 - Effect of one evaluation on pending queues: the evaluation that   *)
(* writes a record appends exactly one entry (evaluator, day) to the       *)
(* candidate's pending queue when the record is fresh, Like and without a  *)
(* match, and leaves every pending queue as it is otherwise; a Pass also   *)
(* leaves every matches and likes_sent set as it is.                       *)
EvaluationEffect ==
    [][Records =>
          /\ incoming_likes' =
                IF /\ NewRecord.QueueType = "fresh"
                   /\ NewRecord.Decision = "Like"
                   /\ ~NewRecord.MatchFormed
                THEN [incoming_likes EXCEPT ![NewRecord.CandidateID] =
                         Append(@, <<NewRecord.UserID, day>>)]
                ELSE incoming_likes
          /\ NewRecord.Decision = "Pass" =>
                (matches' = matches /\ likes_sent' = likes_sent)]_vars

\* the day has seen a fresh like without a match, a fresh like with a
\* match, an incoming like and a pass
EvaluationEffectWitness ==
    /\ \E i \in 1..Len(day_records) :
          /\ day_records[i].QueueType = "fresh"
          /\ day_records[i].Decision = "Like"
          /\ ~day_records[i].MatchFormed
    /\ \E i \in 1..Len(day_records) :
          /\ day_records[i].QueueType = "fresh"
          /\ day_records[i].MatchFormed
    /\ \E i \in 1..Len(day_records) :
          /\ day_records[i].QueueType = "incoming"
          /\ day_records[i].Decision = "Like"
    /\ \E i \in 1..Len(day_records) : day_records[i].Decision = "Pass"

----------------------------------------------------------------------------
\* the place of a user in the login order of the day
LoginIndex(x) == IdIndex(login_order, x)

\* the records of the day that appended an entry to a pending queue
FreshLikes ==
    {i \in 1..Len(day_records) :
        /\ day_records[i].QueueType = "fresh"
        /\ day_records[i].Decision = "Like"
        /\ ~day_records[i].MatchFormed}

(* C19 - Same-day read-after-write: when u's fresh like of v appended      *)
(* (u, day) and v comes later in the login order, the entry is in v's      *)
(* pending queue until v is processed (so it counts in Q(v) in between)    *)
(* and in the list v drains that day; when v came before u, the entry      *)
(* stays pending for the rest of the day.  An incoming entry is evaluated  *)
(* with delay 0 only when its sender came earlier in the login order.      *)
SameDayVisibility ==
    /\ \A i \in FreshLikes :
          LET u == day_records[i].UserID
              v == day_records[i].CandidateID
              e == <<u, day_records[i].Day>>
          IN  /\ (LoginIndex(v) > pos \/ (LoginIndex(v) = pos /\ pc = "user"))
                    => e \in Range(incoming_likes[v])
              /\ (LoginIndex(v) = pos /\ pc = "eval"
                     /\ LoginIndex(u) < LoginIndex(v))
                    => /\ e \in Range(user_incoming)
                       /\ \/ e \in Range(IncomingPart(daily_queue))
                          \/ e \in Range(incoming_likes[v])
              /\ LoginIndex(v) < LoginIndex(u)
                    => e \in Range(incoming_likes[v])
    /\ \A j \in 1..Len(day_records) :
          (day_records[j].QueueType = "incoming" /\ day_records[j].Delay = 0)
              => LoginIndex(day_records[j].CandidateID)
                     < LoginIndex(day_records[j].UserID)

\* a like sent earlier in the day was evaluated with delay 0, and another
\* like of the day went to a user who had already been processed
SameDayVisibilityWitness ==
    /\ \E j \in 1..Len(day_records) :
          /\ day_records[j].QueueType = "incoming"
          /\ day_records[j].Delay = 0
    /\ \E i \in FreshLikes :
          LoginIndex(day_records[i].CandidateID)
              < LoginIndex(day_records[i].UserID)

----------------------------------------------------------------------------
\* how often e occurs in the list q
Count(e, q) == Cardinality({i \in 1..Len(q) : q[i] = e})

(* C20 - Pending-entry conservation, step by step: a drain splits the      *)
(* user's pending queue into the portion taken and the queue left, entry   *)
(* for entry, and touches no other queue; an evaluation changes the queues *)
(* at most by appending one entry of today that the candidate neither has  *)
(* pending nor has taken today; no other step changes a queue.  So entries *)
(* appended = entries taken + entries pending, at every point.             *)
PendingConservation ==
    [][/\ Drains =>
             LET u     == login_order[pos]
                 taken == IncomingPart(daily_queue')
             IN  /\ Len(incoming_likes[u])
                        = Len(taken) + Len(incoming_likes'[u])
                 /\ \A e \in Range(incoming_likes[u]) :
                       Count(e, incoming_likes[u])
                           = Count(e, taken) + Count(e, incoming_likes'[u])
                 /\ \A x \in Users \ {u} :
                       incoming_likes'[x] = incoming_likes[x]
       /\ (Records /\ incoming_likes' # incoming_likes) =>
             LET u == NewRecord.UserID
                 v == NewRecord.CandidateID
             IN  /\ incoming_likes' = [incoming_likes EXCEPT ![v] =
                                          Append(@, <<u, day>>)]
                 /\ <<u, day>> \notin Range(incoming_likes[v])
                 /\ \A j \in RecordsOf(v) :
                       ~(/\ day_records[j].CandidateID = u
                         /\ day_records[j].QueueType = "incoming"
                         /\ day_records[j].Delay = 0)
       /\ (~Drains /\ ~Records) => incoming_likes' = incoming_likes]_vars

\* a drain has taken a part of a pending queue and left the rest
PendingConservationWitness ==
    /\ pc = "eval"
    /\ IncomingPart(daily_queue) # <<>>
    /\ incoming_likes[login_order[pos]] # <<>>

----------------------------------------------------------------------------
\* the number of days whose table is in daily_logs
DaysLogged == Len(daily_logs)

(* C21 - Day and login protocol: the days are processed as 1, 2, ..., N,   *)
(* one table per day in that order; the login order of a day holds every   *)
(* user of both groups exactly once and the users are processed one after  *)
(* another in it, each once; so the Day values of the log never decrease   *)
(* and the records of one user of a day are contiguous.                    *)
DayLoginProtocol ==
    /\ day \in 0..num_days
    /\ DaysLogged = (IF pc \in {"user", "eval"} THEN day - 1 ELSE day)
    /\ pc = "done" => DaysLogged = num_days
    /\ \A k \in 1..DaysLogged : daily_logs[k].Day \subseteq {k}
    /\ day >= 1 =>
          /\ Len(login_order) = Cardinality(Users)
          /\ Range(login_order) = Users
          /\ pos \in 1..(Len(login_order) + 1)
          /\ pc = "eval" => pos <= Len(login_order)
          /\ pc \in {"day", "done"} => pos = Len(login_order) + 1
          /\ \A i \in 1..Len(day_records) :
                /\ day_records[i].Day = day
                /\ LoginIndex(day_records[i].UserID)
                       <= (IF pc = "eval" THEN pos ELSE pos - 1)
          /\ \A i, j \in 1..Len(day_records) :
                i < j => LoginIndex(day_records[i].UserID)
                             <= LoginIndex(day_records[j].UserID)
          /\ \A i, j, k \in 1..Len(day_records) :
                (i < j /\ j < k
                     /\ day_records[i].UserID = day_records[k].UserID)
                    => day_records[j].UserID = day_records[i].UserID

\* the run has returned N tables with rows, the last day with records of
\* two users or more
DayLoginProtocolWitness ==
    /\ pc = "done"
    /\ DaysLogged = num_days
    /\ \A k \in 1..DaysLogged : daily_logs[k].rows > 1
    /\ \E i, j \in 1..Len(day_records) :
          day_records[i].UserID # day_records[j].UserID

----------------------------------------------------------------------------
(* C22 - Delay field: every fresh record has delay 0; every incoming       *)
(* record has a delay between 0 and N - 1, and when it is written the      *)
(* list the user drained holds the entry (candidate, day - delay): the     *)
(* delay is the evaluation day minus the day the like was sent.            *)
DelayField ==
    [][/\ \A i \in 1..Len(day_records') :
             /\ day_records'[i].QueueType = "fresh"
                   => day_records'[i].Delay = 0
             /\ day_records'[i].QueueType = "incoming"
                   => day_records'[i].Delay \in 0..(num_days - 1)
       /\ (Records /\ NewRecord.QueueType = "incoming") =>
             /\ <<NewRecord.CandidateID, day - NewRecord.Delay>>
                    \in Range(user_incoming)
             /\ NewRecord.Delay = day - daily_queue[qi].sent_day
       /\ \A u \in Users : \A e \in Range(incoming_likes'[u]) :
             e[2] \in 1..day']_vars

\* a like was evaluated N - 1 days after it was sent, another on the day
\* it was sent
DelayFieldWitness ==
    /\ \E i \in 1..Len(day_records) :
          /\ day_records[i].QueueType = "incoming"
          /\ day_records[i].Delay = num_days - 1
    /\ \E i \in 1..Len(day_records) :
          /\ day_records[i].QueueType = "incoming"
          /\ day_records[i].Delay = 0

----------------------------------------------------------------------------
(* C23 - Every accepted incoming interest is a match: the sender of every  *)
(* pending entry of u, and of every incoming entry u is being shown, has u *)
(* in likes_sent; every record that is incoming and Like has MatchFormed.  *)
IncomingLikeMatches ==
    /\ \A u \in Users : \A e \in Range(incoming_likes[u]) :
          u \in likes_sent[e[1]]
    /\ pc = "eval" =>
          \A e \in Range(IncomingPart(daily_queue)) :
              login_order[pos] \in likes_sent[e[1]]
    /\ \A i \in 1..Len(day_records) :
          (day_records[i].QueueType = "incoming"
              /\ day_records[i].Decision = "Like")
              => day_records[i].MatchFormed

\* an incoming like was answered with a Like while another like is pending
IncomingLikeMatchesWitness ==
    /\ \E i \in 1..Len(day_records) :
          /\ day_records[i].QueueType = "incoming"
          /\ day_records[i].Decision = "Like"
    /\ \E u \in Users : incoming_likes[u] # <<>>

----------------------------------------------------------------------------
(* C24 - No duplicate pending interest: a pending queue never holds two    *)
(* entries of one sender, and once a day is complete it holds no entry     *)
(* whose sender is in the matches of the user.                             *)
NoDuplicatePending ==
    /\ \A u \in Users : \A i, j \in 1..Len(incoming_likes[u]) :
          i # j => incoming_likes[u][i][1] # incoming_likes[u][j][1]
    /\ (pc \in {"day", "done"} /\ day >= 1) =>
          \A u \in Users : \A e \in Range(incoming_likes[u]) :
              e[1] \notin matches[u]

----------------------------------------------------------------------------
(* The match count of the web page *)

\* sum(len(matches[uid]) for uid in ids)
RECURSIVE MatchCount(_)
MatchCount(ids) ==
    IF ids = <<>> THEN 0
    ELSE Cardinality(matches[Head(ids)]) + MatchCount(Tail(ids))

unique_matches == MatchCount(all_men_ids)

\* the group opposite to u
Opposite(u) == IF u \in Women THEN Men ELSE Women

\* the matched pairs
MatchedPairs ==
    {p \in SUBSET Users : \E u \in p : \E v \in matches[u] : p = {u, v}}

(* C25 - Matches and pending interest are strictly cross-group: matches,   *)
(* likes_sent and the senders of the pending queue of u hold users of the  *)
(* opposite group only, never u; so the sum of the sizes of the men's      *)
(* match sets is the number of matched pairs.                              *)
CrossGroup ==
    /\ \A u \in Users :
          /\ matches[u] \subseteq Opposite(u)
          /\ likes_sent[u] \subseteq Opposite(u)
          /\ {e[1] : e \in Range(incoming_likes[u])} \subseteq Opposite(u)
          /\ u \notin matches[u] \cup likes_sent[u]
          /\ u \notin {e[1] : e \in Range(incoming_likes[u])}
    /\ unique_matches = Cardinality(MatchedPairs)
    /\ unique_matches = MatchCount(all_women_ids)

\* two pairs are matched, a like is pending and a like is unanswered
CrossGroupWitness ==
    /\ unique_matches = 2
    /\ \E u \in Users : incoming_likes[u] # <<>>
    /\ \E u \in Users : likes_sent[u] # {}

====
